---- MODULE Spec2Model ----
(***************************************************************************)
(* The product service of src/main.py: the request models ProductIn and    *)
(* ProductOut, the decoder _doc_to_product_out and the three handlers      *)
(* list_products, create_product and seed_products over the "product"      *)
(* collection of a document store.                                         *)
(*                                                                         *)
(* JSON / BSON values are tagged records, documents and payloads are       *)
(* functions from field names to values (Python dicts), the collection is  *)
(* the sequence of its documents in the store's natural order.             *)
(***************************************************************************)
EXTENDS Integers, Sequences, FiniteSets, TLC

VARIABLES
    dbAvail,      \* whether the process-wide handle db is not None
    store,        \* the "product" collection
    nextId,       \* the store's ObjectId generator
    creates,      \* documents inserted by create_product so far
    last,         \* the last request handled, with its response
    prev,         \* the request handled before it
    pc,           \* per worker: its position inside seed_products
    cnt,          \* per worker: the local `count`
    idx,          \* per worker: the sample the for loop is at
    created_ids,  \* per worker: the local `created_ids`
    result,       \* per worker: what its last seed call returned
    calls,        \* per worker: seed calls started
    overlapped,   \* whether two seed calls were ever in progress together
    doc,          \* a stored document handed to _doc_to_product_out
    out           \* what _doc_to_product_out made of it

vars == <<dbAvail, store, nextId, creates, last, prev, pc, cnt, idx,
          created_ids, result, calls, overlapped, doc, out>>

seqVars == <<dbAvail, store, nextId, creates, last, prev>>
concVars == <<pc, cnt, idx, created_ids, result, calls, overlapped>>
docVars == <<doc, out>>

\* ------------------------------------------------------------------ bounds

\* successful create_product calls in one behaviour
MaxCreates == 2
\* seed calls one worker starts
MaxCalls == 2
\* the default of list_products' limit, and the limit seed_products passes
DefaultLimit == 24

Workers == {"w1", "w2"}

\* ------------------------------------------------------------------ values

Null == [t |-> "null"]
StrV(s) == [t |-> "str", s |-> s]
IntV(n) == [t |-> "int", n |-> n]
FloatV(n) == [t |-> "float", n |-> n]
BoolV(b) == [t |-> "bool", b |-> b]
OidV(n) == [t |-> "oid", n |-> n]

EmptyDict == [k \in {} |-> Null]

Ok(v) == [ok |-> TRUE, val |-> v]
Raise(e) == [ok |-> FALSE, exc |-> e]

\* dict.get(k, default)
Get(d, k, default) == IF k \in DOMAIN d THEN d[k] ELSE default

IsNumber(v) == v.t \in {"int", "float"}
IsStr(v) == v.t = "str"
IsOptStr(v) == v.t \in {"str", "null"}

\* str(x) of an ObjectId (its hex digits) or of None
PyStr(v) ==
    CASE v.t = "oid" -> StrV(ToString(v.n))
      [] v.t = "str" -> v
      [] OTHER -> StrV("None")


\* the demo products of seed_products
Sample(title, description, price, image) ==
    [title |-> StrV(title), description |-> StrV(description),
     price |-> FloatV(price), category |-> StrV("fragrance"),
     in_stock |-> BoolV(TRUE), image |-> StrV(image)]

samples ==
    << Sample("Aurora No. 01",
              "Iridescent florals with a cool, glassy finish.", 89,
              "https://images.unsplash.com/photo-1611930022073-b7a4ba5fcccd?q=80&w=1200&auto=format&fit=crop"),
       Sample("Prism Eau de Parfum",
              "A minimalist blend of citrus and white musk.", 112,
              "https://images.unsplash.com/photo-1547887538-047f814b043e?q=80&w=1200&auto=format&fit=crop"),
       Sample("Violet Glass",
              "Powdery iris over clean cedar and skin.", 98,
              "https://images.unsplash.com/photo-1610375461246-83df859d849e?q=80&w=1200&auto=format&fit=crop"),
       Sample("Studio Light",
              "Transparent amber with a soft, modern glow.", 129,
              "https://images.unsplash.com/photo-1523293182086-7651a899d37f?q=80&w=1200&auto=format&fit=crop") >>

\* ObjectId(s): the id whose str() is s, among those the store has generated
\* or generates within one call
ObjectId(sv) ==
    OidV(CHOOSE n \in 1..(nextId + Len(samples)) : ToString(n) = sv.s)

\* the strings float() parses
NumericStrings == {"10"}
ParseFloat(s) == CASE s = "10" -> 10 [] OTHER -> 0

\* float(x): TypeError on None, ValueError on a string that is no number
PyFloat(v) ==
    CASE v.t = "int" -> Ok(FloatV(v.n))
      [] v.t = "float" -> Ok(v)
      [] v.t = "bool" -> Ok(FloatV(IF v.b THEN 1 ELSE 0))
      [] v.t = "str" -> IF v.s \in NumericStrings
                          THEN Ok(FloatV(ParseFloat(v.s)))
                          ELSE Raise("ValueError")
      [] OTHER -> Raise("TypeError")

\* bool(x): never raises
PyBool(v) ==
    CASE v.t = "bool" -> BoolV(v.b)
      [] v.t \in {"int", "float"} -> BoolV(v.n # 0)
      [] v.t = "str" -> BoolV(v.s # "")
      [] v.t = "null" -> BoolV(FALSE)
      [] OTHER -> BoolV(TRUE)

\* ------------------------------------------------------------ the models

\* ProductOut(...): the fields that are not str / Optional[str] are rejected
ProductOut(id, title, description, price, category, in_stock, image) ==
    IF /\ IsStr(id) /\ IsStr(title) /\ IsOptStr(description)
       /\ price.t = "float" /\ IsStr(category) /\ in_stock.t = "bool"
       /\ IsOptStr(image)
    THEN Ok([id |-> id, title |-> title, description |-> description,
             price |-> price, category |-> category, in_stock |-> in_stock,
             image |-> image])
    ELSE Raise("ValidationError")

\* _doc_to_product_out reading the price under a key no document has
_doc_to_product_out_price_key(d) ==
    LET price == PyFloat(Get(d, "cost", IntV(0)))
    IN  IF ~price.ok THEN Raise(price.exc)
        ELSE ProductOut(PyStr(Get(d, "_id", Null)),
                        Get(d, "title", StrV("")),
                        Get(d, "description", Null),
                        price.val,
                        Get(d, "category", StrV("")),
                        PyBool(Get(d, "in_stock", BoolV(TRUE))),
                        Get(d, "image", Null))

\* _doc_to_product_out with the title copied into the description
_doc_to_product_out_description(d) ==
    LET price == PyFloat(Get(d, "price", IntV(0)))
    IN  IF ~price.ok THEN Raise(price.exc)
        ELSE ProductOut(PyStr(Get(d, "_id", Null)),
                        Get(d, "title", StrV("")),
                        Get(d, "title", Null),
                        price.val,
                        Get(d, "category", StrV("")),
                        PyBool(Get(d, "in_stock", BoolV(TRUE))),
                        Get(d, "image", Null))

_doc_to_product_out(d) ==
    LET price == PyFloat(Get(d, "price", IntV(0)))
    IN  IF ~price.ok THEN Raise(price.exc)
        ELSE ProductOut(PyStr(Get(d, "_id", Null)),
                        Get(d, "title", StrV("")),
                        Get(d, "description", Null),
                        price.val,
                        Get(d, "category", StrV("")),
                        PyBool(Get(d, "in_stock", BoolV(TRUE))),
                        Get(d, "image", Null))

\* ProductIn with price declared without ge=0
ProductInNoPriceBound(p) ==
    {f \in {"title", "category"} : f \notin DOMAIN p \/ ~IsStr(p[f])}
    \cup {f \in {"price"} : f \notin DOMAIN p \/ ~IsNumber(p[f])}
    \cup {f \in {"description", "image"} : f \in DOMAIN p /\ ~IsOptStr(p[f])}
    \cup {f \in {"in_stock"} : f \in DOMAIN p /\ p[f].t # "bool"}

\* ProductIn with title declared Optional
ProductInOptionalTitle(p) ==
    {f \in {"category"} : f \notin DOMAIN p \/ ~IsStr(p[f])}
    \cup {f \in {"title"} : f \in DOMAIN p /\ ~IsStr(p[f])}
    \cup {f \in {"price"} : \/ f \notin DOMAIN p
                            \/ ~IsNumber(p[f])
                            \/ p[f].n < 0}
    \cup {f \in {"description", "image"} : f \in DOMAIN p /\ ~IsOptStr(p[f])}
    \cup {f \in {"in_stock"} : f \in DOMAIN p /\ p[f].t # "bool"}

\* ProductIn: the fields of a request body that fail its validation
ProductInErrors(p) ==
    {f \in {"title", "category"} : f \notin DOMAIN p \/ ~IsStr(p[f])}
    \cup {f \in {"price"} : \/ f \notin DOMAIN p
                            \/ ~IsNumber(p[f])
                            \/ p[f].n < 0}
    \cup {f \in {"description", "image"} : f \in DOMAIN p /\ ~IsOptStr(p[f])}
    \cup {f \in {"in_stock"} : f \in DOMAIN p /\ p[f].t # "bool"}

\* ProductIn: the validated body, defaults applied, price as a float
ProductIn(p) ==
    [title |-> Get(p, "title", Null),
     description |-> Get(p, "description", Null),
     price |-> IF "price" \in DOMAIN p /\ IsNumber(p["price"])
                 THEN FloatV(p["price"].n) ELSE Null,
     category |-> Get(p, "category", Null),
     in_stock |-> Get(p, "in_stock", BoolV(TRUE)),
     image |-> Get(p, "image", Null)]

\* schemas.Product: the fields its validation rejects
ProductSchemaErrors(k) ==
    {f \in {"title", "category"} : ~IsStr(k[f]) \/ k[f].s = ""}
    \cup {f \in {"price"} : ~IsNumber(k[f]) \/ k[f].n < 0}
    \cup {f \in {"description"} : ~IsOptStr(k[f])}
    \cup {f \in {"in_stock"} : k[f].t # "bool"}

\* schemas.Product(...).model_dump()
ProductSchemaDump(k) ==
    [title |-> k.title, description |-> k.description,
     price |-> FloatV(k.price.n), category |-> k.category,
     in_stock |-> k.in_stock]

\* ------------------------------------------------------------- the store

RECURSIVE Take(_, _)
Take(s, n) ==
    IF n <= 0 \/ s = << >> THEN << >> ELSE <<Head(s)>> \o Take(Tail(s), n - 1)

Matches(d, filter_dict) ==
    \A k \in DOMAIN filter_dict : k \in DOMAIN d /\ d[k] = filter_dict[k]

\* database.get_documents(collection, filter_dict, limit)
get_documents(st, filter_dict, limit) ==
    Take(SelectSeq(st, LAMBDA d : Matches(d, filter_dict)), limit)

\* database.create_document(collection, data): the collection afterwards
\* and the generated id, as a string
create_document(st, nid, data) ==
    [store |-> Append(st, data @@ ("_id" :> OidV(nid))),
     id |-> PyStr(OidV(nid))]

\* db["product"].count_documents({})
count_documents(st) == Len(st)

\* db["product"].find_one({"_id": oid})
find_one(st, oid) ==
    LET hits == SelectSeq(st, LAMBDA d : Get(d, "_id", Null) = oid)
    IN  IF hits = << >> THEN Null ELSE Head(hits)

\* db["product"].find({"_id": {"$in": oids}})
find_in(st, oids) ==
    SelectSeq(st, LAMBDA d : \E i \in 1..Len(oids) : Get(d, "_id", Null) = oids[i])

\* ------------------------------------------------------------ responses

Http500Db == [status |-> 500, kind |-> "StoreUnavailable"]
HttpInternal(e) == [status |-> 500, kind |-> "InternalError", exc |-> e]
HttpInvalid(code, fields) ==
    [status |-> code, kind |-> "InvalidInput", fields |-> fields]

\* what a handler leaves behind: its response, the collection, and the
\* number of store operations it made
Outcome(resp, st, ops) == [resp |-> resp, store |-> st, ops |-> ops]

\* [_doc_to_product_out(d) for d in docs], as the response with this status
Respond(code, docs) ==
    LET r == [i \in 1..Len(docs) |-> _doc_to_product_out(docs[i])]
    IN  IF \A i \in 1..Len(docs) : r[i].ok
        THEN [status |-> code, kind |-> "ok",
              body |-> [i \in 1..Len(docs) |-> r[i].val]]
        ELSE HttpInternal((r[CHOOSE i \in 1..Len(docs) : ~r[i].ok]).exc)

\* _doc_to_product_out(doc), as the response with this status
RespondOne(code, d) ==
    LET r == _doc_to_product_out(d)
    IN  IF r.ok THEN [status |-> code, kind |-> "ok", body |-> r.val]
        ELSE HttpInternal(r.exc)

\* ------------------------------------------------------------- handlers

\* `if category:` with no filter ever applied
CategoryFilterNever(category) == EmptyDict

\* filter_dict of list_products
CategoryFilter(category) ==
    IF PyBool(category).b THEN ("category" :> category) ELSE EmptyDict

\* list_products without the check of db
list_products_unchecked(db, st, limit, category) ==
    Outcome(Respond(200, get_documents(st, CategoryFilter(category), limit)),
            st, 1)

list_products(db, st, limit, category) ==
    IF ~db THEN Outcome(Http500Db, st, 0)
    ELSE Outcome(Respond(200, get_documents(st, CategoryFilter(category), limit)),
                 st, 1)

SchemaArgs(payload) ==
    [title |-> payload.title, description |-> payload.description,
     price |-> payload.price, category |-> payload.category,
     in_stock |-> payload.in_stock]

\* data of create_product
CreateData(payload) ==
    ProductSchemaDump(SchemaArgs(payload)) @@ ("image" :> payload.image)

create_product(db, st, nid, payload) ==
    IF ~db THEN Outcome(Http500Db, st, 0)
    ELSE LET errs == ProductSchemaErrors(SchemaArgs(payload))
         IN  IF errs # {} THEN Outcome(HttpInvalid(500, errs), st, 0)
             ELSE LET ins == create_document(st, nid, CreateData(payload))
                      d == find_one(ins.store, ObjectId(ins.id))
                  IN  IF d = Null
                      THEN Outcome(HttpInternal("AttributeError"), ins.store, 2)
                      ELSE Outcome(RespondOne(201, d), ins.store, 2)

\* POST /api/products: the body is validated as ProductIn, then the handler runs
post_products(db, st, nid, body) ==
    IF ProductInErrors(body) # {}
    THEN Outcome(HttpInvalid(422, ProductInErrors(body)), st, 0)
    ELSE create_product(db, st, nid, ProductIn(body))

\* `if count > 0` read as "more than the samples"
has_documents_beyond_samples(count) == count > Len(samples)

\* `if count > 0`
has_documents(count) == count > 0

\* the body of `for s in samples`, for one sample
seed_insert(st, nid, s) ==
    LET errs == ProductSchemaErrors(SchemaArgs(s))
    IN  IF errs # {} THEN [ok |-> FALSE, fields |-> errs]
        ELSE [ok |-> TRUE,
              ins |-> create_document(st, nid,
                          ProductSchemaDump(SchemaArgs(s))
                              @@ ("image" :> Get(s, "image", Null)))]

\* the loop from sample i on: the collection and created_ids when it ends
RECURSIVE seed_loop(_, _, _, _)
seed_loop(st, nid, i, ids) ==
    IF i > Len(samples) THEN [ok |-> TRUE, store |-> st, ids |-> ids]
    ELSE LET r == seed_insert(st, nid, samples[i])
         IN  IF ~r.ok THEN [ok |-> FALSE, store |-> st, fields |-> r.fields]
             ELSE seed_loop(r.ins.store, nid + 1, i + 1, Append(ids, r.ins.id))

\* the final find of seed_products with created_ids passed as strings
seed_result_unconverted(st, ids) == find_in(st, ids)

\* db["product"].find({"_id": {"$in": [ObjectId(i) for i in created_ids]}})
seed_result(st, ids) ==
    find_in(st, [i \in 1..Len(ids) |-> ObjectId(ids[i])])

seed_products(db, st, nid) ==
    IF ~db THEN Outcome(Http500Db, st, 0)
    ELSE IF has_documents(count_documents(st))
         THEN Outcome(Respond(200, get_documents(st, EmptyDict, DefaultLimit)),
                      st, 2)
         ELSE LET r == seed_loop(st, nid, 1, << >>)
              IN  IF ~r.ok
                  THEN Outcome(HttpInvalid(500, r.fields), r.store,
                               1 + Len(r.store) - Len(st))
                  ELSE Outcome(Respond(200, seed_result(r.store, r.ids)),
                               r.store, 2 + Len(samples))

\* --------------------------------------------------------------- inputs

\* request bodies of POST /api/products
Body(title, price, category) ==
    (IF title = Null THEN EmptyDict ELSE ("title" :> title))
    @@ (IF price = Null THEN EmptyDict ELSE ("price" :> price))
    @@ (IF category = Null THEN EmptyDict ELSE ("category" :> category))

BodyMin == Body(StrV("T"), IntV(10), StrV("C"))
BodyFull ==
    Body(StrV("Rose"), IntV(0), StrV("fragrance"))
    @@ ("description" :> StrV("d")) @@ ("in_stock" :> BoolV(FALSE))
    @@ ("image" :> StrV("u"))

Bodies ==
    { BodyMin, BodyFull,
      Body(StrV("Test"), IntV(-5), StrV("x")),
      Body(StrV(""), IntV(-5), StrV("C")),
      Body(Null, IntV(-5), StrV("C")),
      Body(Null, IntV(10), StrV("C")),
      Body(StrV("T"), IntV(10), Null),
      Body(StrV("T"), Null, StrV("C")),
      Body(StrV(""), IntV(10), StrV("C")),
      Body(StrV("T"), FloatV(10), StrV("")),
      Body(StrV(""), IntV(10), Null),
      Body(Null, Null, Null) }

\* query parameters of GET /api/products
Limits == {0, 2, DefaultLimit}
Categories == {Null, StrV(""), StrV("C"), StrV("fragrance"), StrV("zzz")}

\* the collection as DefaultLimit earlier creates of one product leave it
FillerBody == Body(StrV("F"), IntV(1), StrV("C"))
RECURSIVE Prefilled(_)
Prefilled(n) ==
    IF n = 0 THEN << >>
    ELSE create_document(Prefilled(n - 1), n, CreateData(ProductIn(FillerBody))).store

\* ------------------------------------------------- requests, one at a time

NoExchange ==
    [req |-> [op |-> "none"], resp |-> [status |-> 0, kind |-> "none"],
     pre |-> << >>, ops |-> 0]

Exchange(req, o) == [req |-> req, resp |-> o.resp, pre |-> store, ops |-> o.ops]

IdleWorkers ==
    /\ pc = [w \in Workers |-> "idle"]
    /\ cnt = [w \in Workers |-> 0]
    /\ idx = [w \in Workers |-> 1]
    /\ created_ids = [w \in Workers |-> << >>]
    /\ result = [w \in Workers |-> NoExchange.resp]
    /\ calls = [w \in Workers |-> 0]
    /\ overlapped = FALSE

NoDoc ==
    /\ doc = EmptyDict
    /\ out = Raise("none")

Init ==
    /\ dbAvail \in BOOLEAN
    /\ store \in {<< >>, Prefilled(DefaultLimit)}
    /\ nextId = Len(store) + 1
    /\ creates = 0
    /\ last = NoExchange
    /\ prev = NoExchange
    /\ IdleWorkers
    /\ NoDoc

Handled(req, o) ==
    /\ store' = o.store
    /\ nextId' = nextId + Len(o.store) - Len(store)
    /\ last' = Exchange(req, o)
    /\ prev' = last
    /\ UNCHANGED <<dbAvail, concVars, docVars>>

ListProducts ==
    \E limit \in Limits, category \in Categories :
        /\ Handled([op |-> "list", limit |-> limit, category |-> category],
                   list_products(dbAvail, store, limit, category))
        /\ UNCHANGED creates

CreateProduct ==
    \E body \in Bodies :
        LET o == post_products(dbAvail, store, nextId, body)
        IN  /\ o.store # store => creates < MaxCreates
            /\ Handled([op |-> "create", body |-> body], o)
            /\ creates' = IF o.store # store THEN creates + 1 ELSE creates

SeedProducts ==
    /\ Handled([op |-> "seed"], seed_products(dbAvail, store, nextId))
    /\ UNCHANGED creates

Next == ListProducts \/ CreateProduct \/ SeedProducts

Spec == Init /\ [][Next]_vars

\* ------------------------------------------- seed calls, store call by store call

InitConc ==
    /\ dbAvail = TRUE
    /\ store = << >>
    /\ nextId = 1
    /\ creates = 0
    /\ last = NoExchange
    /\ prev = NoExchange
    /\ IdleWorkers
    /\ NoDoc

\* the call starts: db is checked and the documents are counted
SeedCount(w) ==
    /\ pc[w] = "idle"
    /\ calls[w] < MaxCalls
    /\ dbAvail
    /\ calls' = [calls EXCEPT ![w] = @ + 1]
    /\ cnt' = [cnt EXCEPT ![w] = count_documents(store)]
    /\ idx' = [idx EXCEPT ![w] = 1]
    /\ created_ids' = [created_ids EXCEPT ![w] = << >>]
    /\ pc' = [pc EXCEPT ![w] = "counted"]
    /\ overlapped' = (overlapped \/ \E v \in Workers \ {w} : pc[v] # "idle")
    /\ UNCHANGED <<seqVars, result, docVars>>

\* count > 0: the existing documents are listed and returned
SeedListExisting(w) ==
    /\ pc[w] = "counted"
    /\ has_documents(cnt[w])
    /\ result' = [result EXCEPT
                    ![w] = Respond(200, get_documents(store, EmptyDict, DefaultLimit))]
    /\ pc' = [pc EXCEPT ![w] = "idle"]
    /\ UNCHANGED <<seqVars, cnt, idx, created_ids, calls, overlapped, docVars>>

\* one turn of `for s in samples`
SeedInsert(w) ==
    /\ \/ pc[w] = "counted" /\ ~has_documents(cnt[w])
       \/ pc[w] = "loop"
    /\ idx[w] <= Len(samples)
    /\ LET r == seed_insert(store, nextId, samples[idx[w]])
       IN  /\ r.ok
           /\ store' = r.ins.store
           /\ nextId' = nextId + 1
           /\ created_ids' = [created_ids EXCEPT ![w] = Append(@, r.ins.id)]
    /\ idx' = [idx EXCEPT ![w] = @ + 1]
    /\ pc' = [pc EXCEPT ![w] = "loop"]
    /\ UNCHANGED <<dbAvail, creates, last, prev, cnt, result, calls,
                   overlapped, docVars>>

\* the loop is over: the created documents are fetched and returned
SeedFetchCreated(w) ==
    /\ pc[w] = "loop"
    /\ idx[w] > Len(samples)
    /\ result' = [result EXCEPT
                    ![w] = Respond(200, seed_result(store, created_ids[w]))]
    /\ pc' = [pc EXCEPT ![w] = "idle"]
    /\ UNCHANGED <<seqVars, cnt, idx, created_ids, calls, overlapped, docVars>>

NextConc ==
    \E w \in Workers :
        \/ SeedCount(w)
        \/ SeedListExisting(w)
        \/ SeedInsert(w)
        \/ SeedFetchCreated(w)

SpecConc == InitConc /\ [][NextConc]_vars

\* ------------------------------------------- _doc_to_product_out on its own

Missing == [t |-> "missing"]
Field(k, v) == IF v = Missing THEN EmptyDict ELSE (k :> v)

\* stored documents: fields missing, null, or of another type than the schema's
Docs ==
    { ("_id" :> OidV(7)) @@ Field("title", title)
        @@ Field("description", description) @@ Field("price", price)
        @@ Field("category", category) @@ Field("in_stock", in_stock)
        @@ Field("image", image) :
        title \in {Missing, StrV("T"), Null},
        description \in {Missing, StrV("d"), Null, IntV(5)},
        price \in {Missing, IntV(10), FloatV(5), StrV("abc"), Null},
        category \in {Missing, StrV("C"), Null},
        in_stock \in {Missing, BoolV(FALSE)},
        image \in {Missing, StrV("u")} }

Pending == Raise("pending")

InitDoc ==
    /\ dbAvail = TRUE
    /\ store = << >>
    /\ nextId = 1
    /\ creates = 0
    /\ last = NoExchange
    /\ prev = NoExchange
    /\ IdleWorkers
    /\ doc \in Docs
    /\ out = Pending

Decode ==
    /\ out = Pending
    /\ out' = _doc_to_product_out(doc)
    /\ UNCHANGED <<seqVars, concVars, doc>>

NextDoc == Decode

SpecDoc == InitDoc /\ [][NextDoc]_vars

\* --------------------------------------------------------------- claims

Range(seq) == {seq[i] : i \in 1..Len(seq)}

\* the required fields a body leaves out, and those it gives as ""
AbsentRequired(b) == {f \in {"title", "category"} : f \notin DOMAIN b}
EmptyRequired(b) ==
    {f \in {"title", "category"} : f \in DOMAIN b /\ b[f] = StrV("")}
PriceGiven(b) == "price" \in DOMAIN b
ValidBody(b) ==
    /\ AbsentRequired(b) = {} /\ EmptyRequired(b) = {}
    /\ PriceGiven(b) /\ b["price"].n >= 0

\* view v shows the stored document d
Shows(v, d) ==
    /\ v.id = StrV(ToString(d["_id"].n))
    /\ v.title = d["title"] /\ v.description = d["description"]
    /\ v.price.t = "float" /\ v.price.n = d["price"].n
    /\ v.category = d["category"] /\ v.in_stock = d["in_stock"]
    /\ v.image = d["image"]

\* view v shows sample s
ShowsSample(v, s) ==
    /\ v.title = s.title /\ v.description = s.description
    /\ v.price.n = s.price.n /\ v.category = s.category
    /\ v.in_stock = s.in_stock /\ v.image = s.image

SeedTwiceOnEmpty ==
    /\ dbAvail
    /\ prev.req.op = "seed" /\ prev.pre = << >>
    /\ last.req.op = "seed"

\* C1: two seed calls in succession on an empty collection leave exactly 4
\* documents: the first inserts the four samples and returns exactly those
\* as views, the second writes nothing and returns the same 4 records.
C1_SeedTwice ==
    SeedTwiceOnEmpty =>
        /\ Len(store) = 4
        /\ store = last.pre
        /\ prev.resp.status = 200 /\ last.resp.status = 200
        /\ Len(prev.resp.body) = 4
        /\ Cardinality(Range(prev.resp.body)) = 4
        /\ \A i \in 1..4 :
              /\ \E v \in Range(prev.resp.body) :
                    ShowsSample(v, samples[i]) /\ Shows(v, store[i])
        /\ Len(last.resp.body) = 4
        /\ Range(last.resp.body) = Range(prev.resp.body)

C1_Witness == SeedTwiceOnEmpty /\ Len(store) = 4 /\ last.ops = 2

SeedOnNonEmpty == dbAvail /\ last.req.op = "seed" /\ Len(last.pre) >= 1

\* C2: on a collection that holds at least one record a seed call writes
\* nothing and returns views of at most 24 of the existing records.
C2_SeedNoWrite ==
    SeedOnNonEmpty =>
        /\ store = last.pre
        /\ last.resp.status = 200
        /\ Len(last.resp.body) <= 24
        /\ \A v \in Range(last.resp.body) :
              \E d \in Range(last.pre) : Shows(v, d)

C2_Witness ==
    /\ SeedOnNonEmpty
    /\ creates >= 1
    /\ Len(last.pre) > 24
    /\ Len(last.resp.body) = 24

NegativePriceCreate ==
    /\ dbAvail /\ last.req.op = "create"
    /\ PriceGiven(last.req.body) /\ last.req.body["price"].n < 0

\* C3: with the store available a create request whose price is below 0
\* fails with a validation error (the 422 of the request validation, naming
\* price) and writes nothing: the collection and its count are as before.
C3_NegativePrice ==
    NegativePriceCreate =>
        /\ last.resp.status = 422
        /\ last.resp.kind = "InvalidInput"
        /\ "price" \in last.resp.fields
        /\ store = last.pre /\ Len(store) = Len(last.pre)
        /\ last.ops = 0

C3_Witness ==
    /\ NegativePriceCreate
    /\ last.req.body = Body(StrV("Test"), IntV(-5), StrV("x"))
    /\ Len(store) >= 1

ValidCreate == dbAvail /\ last.req.op = "create" /\ ValidBody(last.req.body)

\* C5: with the store available a create request with price >= 0 and
\* non-empty title and category succeeds, adds exactly one document, and
\* returns a view with the newly generated id, the input's title, price and
\* category, in_stock true and description and image null when omitted.
C5_CreateOk ==
    ValidCreate =>
        /\ last.resp.status = 201
        /\ Len(store) = Len(last.pre) + 1
        /\ SubSeq(store, 1, Len(last.pre)) = last.pre
        /\ Shows(last.resp.body, store[Len(store)])
        /\ \A d \in Range(last.pre) : ~Shows(last.resp.body, d)
        /\ \A d \in Range(last.pre) :
              last.resp.body.id # StrV(ToString(d["_id"].n))
        /\ last.resp.body.title = last.req.body["title"]
        /\ last.resp.body.price.n = last.req.body["price"].n
        /\ last.resp.body.category = last.req.body["category"]
        /\ "in_stock" \notin DOMAIN last.req.body =>
              last.resp.body.in_stock = BoolV(TRUE)
        /\ "description" \notin DOMAIN last.req.body =>
              last.resp.body.description = Null
        /\ "image" \notin DOMAIN last.req.body =>
              last.resp.body.image = Null

C5_Witness ==
    /\ ValidCreate
    /\ last.req.body = BodyMin
    /\ Len(last.pre) >= 1
    /\ last.resp.status = 201

CreateThenList ==
    /\ prev.req.op = "create" /\ prev.req.body = BodyMin
    /\ prev.resp.status = 201
    /\ last.req.op = "list"
    /\ last.req.limit = DefaultLimit /\ last.req.category = Null

RoundTripView(v) ==
    /\ v.title = StrV("T") /\ v.price = FloatV(10) /\ v.category = StrV("C")
    /\ v.in_stock = BoolV(TRUE) /\ v.description = Null /\ v.image = Null

\* C6, as stated: after a successful create of {T, 10, C} in any reachable
\* state, a following list() includes the view of that product.
C6_Original ==
    CreateThenList =>
        /\ last.resp.status = 200
        /\ \E v \in Range(last.resp.body) : RoundTripView(v)

\* C6, amended: the same, in any reachable state in which the collection
\* holds fewer than 24 documents before the create.
C6_Amended ==
    (CreateThenList /\ Len(prev.pre) < 24) =>
        /\ last.resp.status = 200
        /\ \E v \in Range(last.resp.body) :
              RoundTripView(v) /\ v = prev.resp.body

C6_Witness ==
    /\ CreateThenList
    /\ Len(prev.pre) >= 4 /\ Len(prev.pre) < 24
    /\ Len(last.resp.body) = Len(prev.pre) + 1

\* the views list(category=c, limit=n) owes: only documents of category c,
\* at most n, and all of them when no more than n have it
ListContract(c, n, st, body) ==
    LET matching == SelectSeq(st, LAMBDA d : d["category"] = c)
    IN  /\ \A v \in Range(body) :
              v.category = c /\ \E d \in Range(matching) : Shows(v, d)
        /\ Len(body) <= n
        /\ Len(matching) <= n =>
              /\ Len(body) = Len(matching)
              /\ \A d \in Range(matching) : \E v \in Range(body) : Shows(v, d)

\* C7, as stated: list(category=c, limit=n) returns only views of stored
\* documents whose category equals c, never more than n, and exactly those
\* when at most n have it.
C7_Original ==
    (dbAvail /\ last.req.op = "list" /\ last.req.category # Null) =>
        /\ last.resp.status = 200
        /\ ListContract(last.req.category, last.req.limit, last.pre,
                        last.resp.body)

\* C7, amended: the same for a non-empty c; with c empty (or omitted) no
\* filter is applied and the call returns views of the first n stored
\* documents, whatever their category.
C7_Amended ==
    (dbAvail /\ last.req.op = "list") =>
        /\ last.resp.status = 200
        /\ store = last.pre
        /\ last.req.category \notin {Null, StrV("")} =>
              ListContract(last.req.category, last.req.limit, last.pre,
                           last.resp.body)
        /\ last.req.category \in {Null, StrV("")} =>
              /\ Len(last.resp.body) <= last.req.limit
              /\ Len(last.pre) <= last.req.limit =>
                    Len(last.resp.body) = Len(last.pre)
              /\ \A v \in Range(last.resp.body) :
                    \E d \in Range(last.pre) : Shows(v, d)

C7_Witness ==
    /\ dbAvail /\ last.req.op = "list"
    /\ last.req.category = StrV("fragrance")
    /\ last.req.limit = DefaultLimit
    /\ prev.req.op = "seed" /\ prev.pre = << >>
    /\ Len(last.resp.body) = 4
    /\ Range(last.resp.body) = Range(prev.resp.body)

\* C9, as stated: with db None every list, create and seed request, whatever
\* its payload, ends in the 500 of the unavailable store, with no store
\* operation attempted.
C9_Original ==
    (~dbAvail /\ last.req.op \in {"list", "create", "seed"}) =>
        /\ last.resp.status = 500
        /\ last.resp.kind = "StoreUnavailable"
        /\ last.ops = 0 /\ store = last.pre

\* C9, amended: with db None every list and seed request, and every create
\* request whose body passes the request validation, ends in that 500; a
\* create request whose body fails the request validation (a required field
\* absent, price < 0) ends in the 422 of the validation instead.  No store
\* operation is attempted in either case.
C9_Amended ==
    (~dbAvail /\ last.req.op \in {"list", "create", "seed"}) =>
        /\ last.ops = 0 /\ store = last.pre
        /\ IF /\ last.req.op = "create"
              /\ \/ AbsentRequired(last.req.body) # {}
                 \/ ~PriceGiven(last.req.body)
                 \/ last.req.body["price"].n < 0
           THEN last.resp.status = 422 /\ last.resp.kind = "InvalidInput"
           ELSE last.resp.status = 500 /\ last.resp.kind = "StoreUnavailable"

C9_Witness ==
    /\ ~dbAvail
    /\ last.req.op = "create" /\ last.req.body = BodyMin
    /\ last.resp.status = 500
    /\ prev.req.op = "list" /\ prev.resp.status = 500

\* C8: _doc_to_product_out never raises: for any stored document it returns
\* a view with the id as a string, a missing field replaced by its default
\* (description null, image null, in_stock true, title "", category "",
\* price 0) and a present field carried through unchanged.
C8_Total ==
    out # Pending =>
        /\ out.ok
        /\ out.val.id = StrV("7")
        /\ out.val.title = Get(doc, "title", StrV(""))
        /\ out.val.category = Get(doc, "category", StrV(""))
        /\ out.val.description = Get(doc, "description", Null)
        /\ out.val.image = Get(doc, "image", Null)
        /\ out.val.in_stock = Get(doc, "in_stock", BoolV(TRUE))
        /\ out.val.price.n = Get(doc, "price", IntV(0)).n

DuplicatedSamples ==
    /\ Len(store) = 8
    /\ \A i \in 1..4 :
          Cardinality({j \in 1..8 : store[j]["title"] = samples[i].title}) = 2

\* C10: the sample set is duplicated (8 documents) only when two seed calls
\* overlapped; seed calls that do not overlap never leave more than the 4
\* samples.
C10_NoOverlapAtMostFour ==
    /\ ~overlapped => Len(store) <= 4
    /\ Len(store) <= 8
    /\ Len(store) > 4 =>
          /\ overlapped
          /\ \A w \in Workers : calls[w] >= 1

C10_Witness ==
    /\ DuplicatedSamples
    /\ overlapped
    /\ \A w \in Workers :
          /\ calls[w] = 1 /\ cnt[w] = 0 /\ pc[w] = "idle"
          /\ result[w].status = 200 /\ Len(result[w].body) = 4

====
